---- MODULE Spec2Model ----
(***************************************************************************)
(* One invocation of all-scripts/count_tokens.py: main() reads sys.argv,   *)
(* analyze_file() reads the file and classifies its token count,           *)
(* print_analysis() renders the report, main() optionally writes the JSON  *)
(* artifact and maps the status to the process exit code.                  *)
(*                                                                         *)
(* Numbers.  context_percentage is the binary64 value                      *)
(* (token_count / 200000) * 100.  The model keeps it exact, as the         *)
(* rational token_count / 2000: comparisons with the thresholds            *)
(* 0.1 * 100 (= 10.0 in binary64) and 0.25 * 100 (= 25.0) are done by      *)
(* cross multiplication, and round(x, 2) is a count of hundredths.  The    *)
(* binary64 evaluation agrees with the exact one except on decimal ties    *)
(* (token_count % 20 = 10), where the direction is fixed by the            *)
(* representation error of the double; TieRoundsUp lists the ties that     *)
(* CPython rounds upwards.                                                 *)
(*                                                                         *)
(* Strings.  A path is a record [stem, suffix]; a status is its word       *)
(* (the icon prefix is dropped, "DANGER" in status is HasWord).  The       *)
(* report fields file_size_kb and chars_per_token are not modelled: no     *)
(* property below reads them.                                              *)
(***************************************************************************)
EXTENDS Integers, Sequences, FiniteSets, TLC

VARIABLES
    argv,         \* sys.argv[1:], fixed for the run
    exists,       \* the paths that exist in the file system
    file,         \* what an existing path holds: [len, newlines, valid_utf8]
    tokenizer,    \* the external tokenizer: [mode, value]
    pc,           \* position of the run inside main()
    file_path,    \* main's local file_path
    content,      \* analyze_file's local content: [len, newlines]
    token_count,  \* analyze_file's local token_count
    counted,      \* count_tokens_accurate has been called
    analysis,     \* the report returned by analyze_file
    raised,       \* the exception in flight or handled
    stdout,       \* what was printed to standard output, in order
    stderr,       \* what was printed to standard error, in order
    artifacts,    \* the JSON files written: [path, report]
    exit_code     \* the code passed to sys.exit

vars == <<argv, exists, file, tokenizer, pc, file_path, content, token_count,
          counted, analysis, raised, stdout, stderr, artifacts, exit_code>>

----------------------------------------------------------------------------
(* Bounds *)

MaxArgs == 2

Span == 12

----------------------------------------------------------------------------
(* Program constants *)

CLAUDE_CODE_CONTEXT_WINDOW == 200000

BUDGET_WARNING_THRESHOLD == 10

BUDGET_DANGER_THRESHOLD == 25

CharsPerToken == 3

\* token counts whose percentage is a decimal tie at 2 places and whose
\* double lies above the midpoint (those within 100 of a cut point)
TieRoundsUp == {19910, 19950, 20010, 20030, 20050, 20070,
                49950, 49990, 50070, 50090}

----------------------------------------------------------------------------
(* Values *)

NoPath == [stem |-> "", suffix |-> ""]

ArgFile == [stem |-> "mapper", suffix |-> ".py"]

ArgJson == [stem |-> "--json", suffix |-> ""]

Args == {ArgFile, ArgJson}

NoContent == [len |-> 0, newlines |-> 0]

NoReport == [file_path |-> NoPath, char_count |-> 0, line_count |-> 0,
             token_count |-> 0, context_window_total |-> 0,
             context_percentage |-> 0, tokens_remaining |-> 0,
             status |-> "none", status_color |-> "none"]

NoExit == 0 - 1

\* token counts at which the classification changes
CutPoints == {(BUDGET_WARNING_THRESHOLD * CLAUDE_CODE_CONTEXT_WINDOW) \div 100,
              (BUDGET_DANGER_THRESHOLD * CLAUDE_CODE_CONTEXT_WINDOW) \div 100}

\* values the external tokenizer may hand back
TokenValues == {0 - 1, 0, 100, CLAUDE_CODE_CONTEXT_WINDOW + 1}
               \cup UNION {(c - Span)..(c + Span) : c \in CutPoints}

\* lengths of the file's text
FileLens == {0, 2, 300}
            \cup UNION {{CharsPerToken * c - 3, CharsPerToken * c - 1,
                         CharsPerToken * c} : c \in CutPoints}

Files == [len : FileLens, newlines : {0, 1}, valid_utf8 : BOOLEAN]

Tokenizers == {[mode |-> "absent", value |-> 0], [mode |-> "raises", value |-> 0]}
              \cup [mode : {"returns"}, value : TokenValues]

ArgvSeqs == UNION {[1..n -> Args] : n \in 0..MaxArgs}

----------------------------------------------------------------------------
(* Pure functions *)

count_tokens_simple(len) == len \div CharsPerToken

\* context_percentage < threshold * 100, on the unrounded value
PctBelow(tc, threshold) == tc * 100 < threshold * CLAUDE_CODE_CONTEXT_WINDOW

\* round(context_percentage, 2), in hundredths of a percent
RoundPct(tc) ==
    LET d == CLAUDE_CODE_CONTEXT_WINDOW \div 10000
        q == tc \div d
        r == tc % d
    IN  IF 2 * r > d THEN q + 1
        ELSE IF 2 * r < d THEN q
        ELSE IF tc \in TieRoundsUp THEN q + 1 ELSE q

ClassifyLoose(tc) ==
    IF tc * 100 <= BUDGET_WARNING_THRESHOLD * CLAUDE_CODE_CONTEXT_WINDOW
    THEN [status |-> "SAFE", color |-> "green"]
    ELSE IF PctBelow(tc, BUDGET_DANGER_THRESHOLD)
         THEN [status |-> "WARNING", color |-> "yellow"]
         ELSE [status |-> "DANGER", color |-> "red"]

Classify(tc) ==
    IF PctBelow(tc, BUDGET_WARNING_THRESHOLD)
    THEN [status |-> "SAFE", color |-> "green"]
    ELSE IF PctBelow(tc, BUDGET_DANGER_THRESHOLD)
         THEN [status |-> "WARNING", color |-> "yellow"]
         ELSE [status |-> "DANGER", color |-> "red"]

ReportCapacityHalved(path, c, tc) ==
    [file_path |-> path,
     char_count |-> c.len,
     line_count |-> c.newlines + 1,
     token_count |-> tc,
     context_window_total |-> CLAUDE_CODE_CONTEXT_WINDOW,
     context_percentage |-> RoundPct(2 * tc),
     tokens_remaining |-> CLAUDE_CODE_CONTEXT_WINDOW - tc,
     status |-> Classify(tc).status,
     status_color |-> Classify(tc).color]

Report(path, c, tc) ==
    [file_path |-> path,
     char_count |-> c.len,
     line_count |-> c.newlines + 1,
     token_count |-> tc,
     context_window_total |-> CLAUDE_CODE_CONTEXT_WINDOW,
     context_percentage |-> RoundPct(tc),
     tokens_remaining |-> CLAUDE_CODE_CONTEXT_WINDOW - tc,
     status |-> Classify(tc).status,
     status_color |-> Classify(tc).color]

\* word in status
HasWord(status, word) == status = word

ExitCodeForSwapped(status) ==
    IF HasWord(status, "DANGER") THEN 1
    ELSE IF HasWord(status, "WARNING") THEN 2
    ELSE 0

ExitCodeFor(status) ==
    IF HasWord(status, "DANGER") THEN 2
    ELSE IF HasWord(status, "WARNING") THEN 1
    ELSE 0

\* Path.with_suffix('.tokens.json')
with_suffix(path) == [stem |-> path.stem, suffix |-> ".tokens.json"]

\* the lines print_analysis writes for a report
RecommendationBlock(a) ==
    IF a.context_percentage >= 25 * 100 THEN <<"RECOMMENDATION">>
    ELSE IF a.context_percentage >= 10 * 100 THEN <<"NOTE">>
    ELSE <<>>

ReportLines(a) == <<"report">> \o RecommendationBlock(a) \o <<"report_end">>

Contains(seq, x) == \E i \in 1..Len(seq) : seq[i] = x

Msg(kind, path) == [kind |-> kind, path |-> path]

----------------------------------------------------------------------------
(* Initial state: the command line, the file system and the tokenizer *)

Init ==
    /\ argv \in ArgvSeqs
    /\ exists \in SUBSET Args
    /\ file \in Files
    /\ tokenizer \in Tokenizers
    /\ pc = "main"
    /\ file_path = NoPath
    /\ content = NoContent
    /\ token_count = 0
    /\ counted = FALSE
    /\ analysis = NoReport
    /\ raised = "none"
    /\ stdout = <<>>
    /\ stderr = <<>>
    /\ artifacts = {}
    /\ exit_code = NoExit

Env == <<argv, exists, file, tokenizer>>

----------------------------------------------------------------------------
(* main: argument check *)

UsageOnlyWhenNoArgs ==
    /\ pc = "main"
    /\ \/ /\ Len(argv) + 1 < 2
          /\ stdout' = <<"usage">>
          /\ exit_code' = 1
          /\ pc' = "exited"
          /\ UNCHANGED file_path
       \/ /\ Len(argv) + 1 > 2
          /\ file_path' = argv[1]
          /\ pc' = "analyze_file"
          /\ UNCHANGED <<stdout, exit_code>>
    /\ UNCHANGED <<Env, content, token_count, counted, analysis,
                   raised, stderr, artifacts>>

Main_Usage ==
    /\ pc = "main"
    /\ Len(argv) + 1 # 2
    /\ stdout' = <<"usage">>
    /\ exit_code' = 1
    /\ pc' = "exited"
    /\ UNCHANGED <<Env, file_path, content, token_count, counted, analysis,
                   raised, stderr, artifacts>>

Main_Start ==
    /\ pc = "main"
    /\ Len(argv) + 1 = 2
    /\ file_path' = argv[1]
    /\ pc' = "analyze_file"
    /\ UNCHANGED <<Env, content, token_count, counted, analysis, raised,
                   stdout, stderr, artifacts, exit_code>>

----------------------------------------------------------------------------
(* analyze_file *)

NotFoundAfterCounting ==
    /\ pc = "analyze_file"
    /\ file_path \notin exists
    /\ counted' = TRUE
    /\ raised' = "FileNotFoundError"
    /\ pc' = "except_FileNotFoundError"
    /\ UNCHANGED <<Env, file_path, content, token_count, analysis,
                   stdout, stderr, artifacts, exit_code>>

AnalyzeFile_NotFound ==
    /\ pc = "analyze_file"
    /\ file_path \notin exists
    /\ raised' = "FileNotFoundError"
    /\ pc' = "except_FileNotFoundError"
    /\ UNCHANGED <<Env, file_path, content, token_count, counted, analysis,
                   stdout, stderr, artifacts, exit_code>>

\* with open(file_path, 'r', encoding='utf-8') as f: content = f.read()
AnalyzeFile_Read ==
    /\ pc = "analyze_file"
    /\ file_path \in exists
    /\ file.valid_utf8
    /\ content' = [len |-> file.len, newlines |-> file.newlines]
    /\ pc' = "count_tokens"
    /\ UNCHANGED <<Env, file_path, token_count, counted, analysis, raised,
                   stdout, stderr, artifacts, exit_code>>

\* UnicodeDecodeError: the bytes are read and decoded with errors='replace';
\* file.len and file.newlines then describe the text with the replacement
\* characters in it
AnalyzeFile_ReadLossy ==
    /\ pc = "analyze_file"
    /\ file_path \in exists
    /\ ~file.valid_utf8
    /\ content' = [len |-> file.len, newlines |-> file.newlines]
    /\ pc' = "count_tokens"
    /\ UNCHANGED <<Env, file_path, token_count, counted, analysis, raised,
                   stdout, stderr, artifacts, exit_code>>

\* open() fails on an existing path (permissions, a directory)
AnalyzeFile_ReadError ==
    /\ pc = "analyze_file"
    /\ file_path \in exists
    /\ raised' = "Exception"
    /\ pc' = "except_Exception"
    /\ UNCHANGED <<Env, file_path, content, token_count, counted, analysis,
                   stdout, stderr, artifacts, exit_code>>

CountPropagates ==
    /\ pc = "count_tokens"
    /\ counted' = TRUE
    /\ \/ /\ tokenizer.mode = "returns"
          /\ token_count' = tokenizer.value
          /\ pc' = "build_report"
          /\ UNCHANGED <<stderr, raised>>
       \/ /\ tokenizer.mode = "absent"
          /\ stderr' = stderr \o <<Msg("warn_not_installed", NoPath)>>
          /\ token_count' = count_tokens_simple(content.len)
          /\ pc' = "build_report"
          /\ UNCHANGED raised
       \/ /\ tokenizer.mode = "raises"
          /\ raised' = "Exception"
          /\ pc' = "except_Exception"
          /\ UNCHANGED <<stderr, token_count>>
    /\ UNCHANGED <<Env, file_path, content, analysis, stdout, artifacts,
                   exit_code>>

count_tokens_accurate ==
    /\ pc = "count_tokens"
    /\ counted' = TRUE
    /\ \/ /\ tokenizer.mode = "returns"
          /\ token_count' = tokenizer.value
          /\ UNCHANGED stderr
       \/ /\ tokenizer.mode = "absent"
          /\ stderr' = stderr \o <<Msg("warn_not_installed", NoPath)>>
          /\ token_count' = count_tokens_simple(content.len)
       \/ /\ tokenizer.mode = "raises"
          /\ stderr' = stderr \o <<Msg("warn_tokenizer_error", NoPath)>>
          /\ token_count' = count_tokens_simple(content.len)
    /\ pc' = "build_report"
    /\ UNCHANGED <<Env, file_path, content, analysis, raised, stdout,
                   artifacts, exit_code>>

AnalyzeFile_Report ==
    /\ pc = "build_report"
    /\ analysis' = Report(file_path, content, token_count)
    /\ pc' = "print_analysis"
    /\ UNCHANGED <<Env, file_path, content, token_count, counted, raised,
                   stdout, stderr, artifacts, exit_code>>

----------------------------------------------------------------------------
(* print_analysis *)

print_analysis ==
    /\ pc = "print_analysis"
    /\ stdout' = stdout \o ReportLines(analysis)
    /\ pc' = "json"
    /\ UNCHANGED <<Env, file_path, content, token_count, counted, analysis,
                   raised, stderr, artifacts, exit_code>>

----------------------------------------------------------------------------
(* main: JSON artifact, exit code, exception handlers *)

Main_JsonSkip ==
    /\ pc = "json"
    /\ ~Contains(argv, ArgJson)
    /\ pc' = "exit_status"
    /\ UNCHANGED <<Env, file_path, content, token_count, counted, analysis,
                   raised, stdout, stderr, artifacts, exit_code>>

Main_JsonWrite ==
    /\ pc = "json"
    /\ Contains(argv, ArgJson)
    /\ artifacts' = artifacts \cup
                    {[path |-> with_suffix(file_path), report |-> analysis]}
    /\ stdout' = stdout \o <<"json_saved">>
    /\ pc' = "exit_status"
    /\ UNCHANGED <<Env, file_path, content, token_count, counted, analysis,
                   raised, stderr, exit_code>>

\* open(json_output, 'w') fails
Main_JsonWriteError ==
    /\ pc = "json"
    /\ Contains(argv, ArgJson)
    /\ raised' = "Exception"
    /\ pc' = "except_Exception"
    /\ UNCHANGED <<Env, file_path, content, token_count, counted, analysis,
                   stdout, stderr, artifacts, exit_code>>

Main_ExitStatus ==
    /\ pc = "exit_status"
    /\ exit_code' = ExitCodeFor(analysis.status)
    /\ pc' = "exited"
    /\ UNCHANGED <<Env, file_path, content, token_count, counted, analysis,
                   raised, stdout, stderr, artifacts>>

Main_FileNotFound ==
    /\ pc = "except_FileNotFoundError"
    /\ stderr' = stderr \o <<Msg("error_file_not_found", file_path)>>
    /\ exit_code' = 1
    /\ pc' = "exited"
    /\ UNCHANGED <<Env, file_path, content, token_count, counted, analysis,
                   raised, stdout, artifacts>>

UnexpectedExitsZero ==
    /\ pc = "except_Exception"
    /\ stderr' = stderr \o <<Msg("error_unexpected", NoPath),
                             Msg("traceback", NoPath)>>
    /\ exit_code' = 0
    /\ pc' = "exited"
    /\ UNCHANGED <<Env, file_path, content, token_count, counted, analysis,
                   raised, stdout, artifacts>>

Main_Unexpected ==
    /\ pc = "except_Exception"
    /\ stderr' = stderr \o <<Msg("error_unexpected", NoPath),
                             Msg("traceback", NoPath)>>
    /\ exit_code' = 1
    /\ pc' = "exited"
    /\ UNCHANGED <<Env, file_path, content, token_count, counted, analysis,
                   raised, stdout, artifacts>>

----------------------------------------------------------------------------

Next ==
    \/ Main_Usage
    \/ Main_Start
    \/ AnalyzeFile_NotFound
    \/ AnalyzeFile_Read
    \/ AnalyzeFile_ReadLossy
    \/ AnalyzeFile_ReadError
    \/ count_tokens_accurate
    \/ AnalyzeFile_Report
    \/ print_analysis
    \/ Main_JsonSkip
    \/ Main_JsonWrite
    \/ Main_JsonWriteError
    \/ Main_ExitStatus
    \/ Main_FileNotFound
    \/ Main_Unexpected

Spec == Init /\ [][Next]_vars

\* the run is sequential and every call returns or raises
FairSpec == Spec /\ WF_vars(Next)

----------------------------------------------------------------------------
(* Properties *)

HasReport == analysis # NoReport

ReportPrinted == Contains(stdout, "report") /\ Contains(stdout, "report_end")

\* C1: a run on an existing file that completes without error exits with
\* the code its report's status fixes: SAFE 0, WARNING 1, DANGER 2.
ExitCodeFollowsStatus ==
    (pc = "exited" /\ Len(argv) = 1 /\ argv[1] \in exists /\ raised = "none")
    => /\ analysis.status \in {"SAFE", "WARNING", "DANGER"}
       /\ analysis.status = "SAFE" => exit_code = 0
       /\ analysis.status = "WARNING" => exit_code = 1
       /\ analysis.status = "DANGER" => exit_code = 2

ExitCodeFollowsStatus_Witness ==
    /\ pc = "exited"
    /\ raised = "none"
    /\ Len(argv) = 1
    /\ analysis.status = "DANGER"
    /\ exit_code = 2

\* C2 (as claimed): invoked as <file_path> --json on an existing file, the
\* run prints the report, writes it to <file_path>.with_suffix(.tokens.json)
\* and prints the written path.
JsonFlagWritesArtifact ==
    (pc = "exited" /\ argv = <<ArgFile, ArgJson>> /\ ArgFile \in exists)
    => /\ ReportPrinted
       /\ \E a \in artifacts : a.path = with_suffix(ArgFile)
       /\ Contains(stdout, "json_saved")

\* C3: the status is SAFE exactly below 20000 tokens, WARNING exactly from
\* 20000 up to 49999, DANGER exactly from 50000, with colors green, yellow,
\* red.
StatusCutPoints ==
    HasReport
    => /\ analysis.status = "SAFE" <=> analysis.token_count < 20000
       /\ analysis.status = "WARNING" <=>
             (20000 <= analysis.token_count /\ analysis.token_count < 50000)
       /\ analysis.status = "DANGER" <=> analysis.token_count >= 50000
       /\ analysis.status = "SAFE" => analysis.status_color = "green"
       /\ analysis.status = "WARNING" => analysis.status_color = "yellow"
       /\ analysis.status = "DANGER" => analysis.status_color = "red"

StatusCutPoints_Witness ==
    /\ HasReport
    /\ analysis.token_count = 20000
    /\ analysis.status = "WARNING"
    /\ analysis.status_color = "yellow"

\* C4: when the tokenizer is absent or raises, the counter returns
\* len(text) // 3, warns on standard error, prints nothing on standard
\* output and raises nothing; the run goes on to print the report and, bar a
\* later failure, exits with the code of its status.
TokenizerFailureFallsBack ==
    (counted /\ tokenizer.mode # "returns")
    => /\ token_count = content.len \div 3
       /\ \E i \in 1..Len(stderr) :
             stderr[i].kind \in {"warn_not_installed", "warn_tokenizer_error"}
       /\ pc = "build_report" => (stdout = <<>> /\ raised = "none")
       /\ raised = "none" \/ ReportPrinted
       /\ (pc = "exited" /\ raised = "none")
          => /\ ReportPrinted
             /\ analysis.token_count = content.len \div 3
             /\ analysis.status = "SAFE" => exit_code = 0
             /\ analysis.status = "WARNING" => exit_code = 1
             /\ analysis.status = "DANGER" => exit_code = 2

TokenizerFailureFallsBack_Witness ==
    /\ pc = "exited"
    /\ tokenizer.mode = "raises"
    /\ raised = "none"
    /\ content.len = 300
    /\ analysis.token_count = 100
    /\ exit_code = 0

\* C5: on a path that does not exist the run prints an error naming the
\* path on standard error, exits with 1, prints nothing on standard output,
\* never calls the counter and writes no artifact.
MissingFileFails ==
    (pc = "exited" /\ Len(argv) = 1 /\ argv[1] \notin exists)
    => /\ stderr = <<Msg("error_file_not_found", argv[1])>>
       /\ exit_code = 1
       /\ stdout = <<>>
       /\ ~counted
       /\ ~HasReport
       /\ artifacts = {}

MissingFileFails_Witness ==
    /\ pc = "exited"
    /\ argv = <<ArgFile>>
    /\ ArgFile \notin exists
    /\ exit_code = 1

\* C6 (as claimed): the status is fixed by the report's rounded
\* context_percentage: SAFE iff it is below 10, WARNING iff it is from 10 up
\* to below 25, DANGER iff it is 25 or more.
StatusFollowsRoundedField ==
    HasReport
    => /\ analysis.status = "SAFE" <=> analysis.context_percentage < 1000
       /\ analysis.status = "WARNING" <=>
             (1000 <= analysis.context_percentage
              /\ analysis.context_percentage < 2500)
       /\ analysis.status = "DANGER" <=> analysis.context_percentage >= 2500

\* C6 (amended): the rounded context_percentage fixes the status except at
\* the values 10.00 and 25.00: below 10 is SAFE, strictly between 10 and 25
\* is WARNING, above 25 is DANGER, exactly 10.00 is SAFE or WARNING and
\* exactly 25.00 is WARNING or DANGER.
StatusFollowsRoundedFieldOffCuts ==
    HasReport
    => /\ analysis.context_percentage < 1000 => analysis.status = "SAFE"
       /\ (1000 < analysis.context_percentage
           /\ analysis.context_percentage < 2500)
          => analysis.status = "WARNING"
       /\ analysis.context_percentage > 2500 => analysis.status = "DANGER"
       /\ analysis.context_percentage = 1000
          => analysis.status \in {"SAFE", "WARNING"}
       /\ analysis.context_percentage = 2500
          => analysis.status \in {"WARNING", "DANGER"}

StatusFollowsRoundedFieldOffCuts_Witness ==
    /\ HasReport
    /\ analysis.token_count = 19999
    /\ analysis.context_percentage = 1000
    /\ analysis.status = "SAFE"

\* C7 (as claimed): the token count of every report is non-negative,
\* whatever the tokenizer returned.
TokenCountNonNegative ==
    HasReport => analysis.token_count >= 0

RecommendationAgreesWithStatus ==
    ReportPrinted
    => /\ Contains(stdout, "RECOMMENDATION") <=> analysis.status = "DANGER"
       /\ Contains(stdout, "NOTE") <=> analysis.status = "WARNING"
       /\ analysis.status = "SAFE"
          <=> (~Contains(stdout, "RECOMMENDATION") /\ ~Contains(stdout, "NOTE"))

\* C10: every run ends with one exit code out of 0, 1, 2, which never
\* changes afterwards; 0 only after a complete SAFE report was printed, 2
\* only after a complete DANGER report was printed.
RunTerminatesWithExitCode ==
    /\ <>(pc = "exited")
    /\ [](pc = "exited" <=> exit_code \in {0, 1, 2})
    /\ [](pc # "exited" => exit_code = NoExit)
    /\ [][pc = "exited" => (pc' = "exited" /\ exit_code' = exit_code)]_vars
    /\ [](exit_code = 0 => (ReportPrinted /\ analysis.status = "SAFE"))
    /\ [](exit_code = 2 => (ReportPrinted /\ analysis.status = "DANGER"))

RunTerminatesWithExitCode_Witness ==
    /\ pc = "exited"
    /\ raised = "Exception"
    /\ ReportPrinted
    /\ analysis.status = "DANGER"
    /\ exit_code = 1

====
